---- MODULE Spec2Model ----
(***************************************************************************)
(* A model of the edgedb-js query-builder generator.                       *)
(*                                                                         *)
(*   Spec      generateQB (src/reflection/generate.ts): one run after the  *)
(*             other on the same output directory; connection handling,    *)
(*             introspection, generators, the write phase and the deletion *)
(*             of vestigial files.                                         *)
(*   SpecIntrospect                                                        *)
(*             the version query and the six catalog queries of one run on *)
(*             the client's pool of connections, with the fairness of the  *)
(*             event loop and of a database that answers.                  *)
(*   SpecMerge the merged default export of the index file, for the        *)
(*             modules a schema may give.                                  *)
(*   SpecTypes the lookup index typesByName built from the types query.    *)
(*   SpecShared                                                            *)
(*             Spec with another process that creates files while a run    *)
(*             is writing and deleting.                                    *)
(*   SpecRetry retryingConnect (packages/driver/src/retry.ts) against a    *)
(*             clock and a server that accepts or refuses.                 *)
(*   SpecUpdate                                                            *)
(*             update() (packages/generate/src/syntax/update.ts) and the   *)
(*             shared set $existingScopes, with calls nested in the shape  *)
(*             callback.                                                   *)
(*                                                                         *)
(* A file name is the sequence of its dot-separated components             *)
(* ("syntax.d.ts" is <<"syntax", "d", "ts">>), a path is                   *)
(* <<directory, file name>>, and a file's content is a sequence of tokens  *)
(* [kind, ref, ext]; the empty sequence is the empty string.               *)
(***************************************************************************)
EXTENDS Integers, Sequences, FiniteSets, TLC

\* Number of generateQB runs on the same output directory.
MaxRuns == 3

\* Number of types the types query returns at most.
MaxTypes == 3

\* Number of files another process creates at most.
MaxForeign == 1

\* The last reading of the clock.
MaxClock == 6

\* The largest waitUntilAvailable, in ticks of the clock.
MaxWait == 3

\* Number of calls of update() at most, nested ones included, and the most
\* calls in progress at a time.
MaxUpdates == 4
MaxDepth == 2

VARIABLES
    pc,             \* position in generateQB
    run,            \* runs started so far
    target,         \* params.target of the current run
    schema,         \* the schema the database holds during the current run
    srcKind,        \* the content of the package's static syntax directory
    clientCreated,  \* createClient returned a client (cxn)
    closeCount,     \* calls of cxn.close() in the current run
    err,            \* the exception in flight, "none" when there is none
    failedQuery,    \* the catalog query that rejected, 0 when none
    gensInvoked,    \* domain generators invoked in the current run
    fs,             \* the files of the output directory: path -> content
    dirs,           \* the sub-directories of the output directory
    initialFiles,   \* const initialFiles (line 292)
    written,        \* const written (line 293)
    snapshots,      \* calls of walk(outputDir) in the current run
    passIdx,        \* the dir.write call in progress
    fileIdx,        \* the loop position inside dir.write
    syntaxIdx,      \* the loop position of `for (const fileName of syntaxFiles)`
    delIdx,         \* the loop position of `for (const file of initialFiles)`
    oplog,          \* the file-system mutations of the current run, in order
    fs0,            \* the output directory as it was when the run started
    dirs0,          \* its sub-directories when the run started
    prev,           \* the previous successful run: its input and its result
    \* introspection on the pooled connection (SpecIntrospect)
    ipos,           \* position of generateQB in lines 85-96
    issued,         \* catalog queries handed to the connection so far
    qstate,         \* each query's state; query 0 is the version query
    queue,          \* the queries waiting for one of the pool's connections
    \* the merged surface of the index file (SpecMerge)
    mpc,            \* position in lines 207-274
    modules,        \* dir._modules with each module's emptiness and export keys
    mi,             \* the loop position
    excludedKeys,   \* const excludedKeys
    spreadTypes,    \* const spreadTypes: each entry's name and omitted keys
    typeEntries,    \* the module entries of the merged type
    valueSpreads,   \* the spreads of the merged value, in the order written
    valueEntries,   \* the module entries of the merged value
    imports,        \* the default imports added to the index file
    \* the lookup index (SpecTypes)
    tpc,            \* position in lines 98-104
    types,          \* the types the query returned, in the order of types.values()
    ti,             \* the loop position
    typesByName,    \* const typesByName: name -> position of the type in types
    \* another process on the output directory (SpecShared)
    foreign,        \* the paths it has created, in order
    \* retryingConnect (SpecRetry)
    rpc,            \* position in retryingConnect
    waitUntilAvailable, \* config.connectionParams.waitUntilAvailable
    now,            \* the clock: what Date.now() returns
    startedAt,      \* the clock when retryingConnect was called
    maxTime,        \* const maxTime
    attempts,       \* calls of connectWithTimeout so far
    sleeps,         \* calls of sleep so far
    lastError,      \* the error the last call rejected with, "none" when none
    observedAt,     \* const now of the catch block of the last reconnectable error
    thrown,         \* the error retryingConnect rejected with, "none" when none
    \* update() (SpecUpdate)
    ustack,         \* the calls of update() in progress, the innermost last
    existingScopes, \* the shared set $existingScopes
    exc,            \* the exception in flight out of update(), "none" when none
    started,        \* calls of update() so far
    result,         \* how the last outermost call ended
    entryEmpty      \* $existingScopes was empty when the outermost call began

genVars == <<pc, run, target, schema, srcKind, clientCreated, closeCount, err,
          failedQuery, gensInvoked, fs, dirs, initialFiles, written, snapshots,
          passIdx, fileIdx, syntaxIdx, delIdx, oplog, fs0, dirs0, prev>>

introVars == <<ipos, issued, qstate, queue>>

mergeVars == <<mpc, modules, mi, excludedKeys, spreadTypes, typeEntries,
               valueSpreads, valueEntries, imports>>

typesVars == <<tpc, types, ti, typesByName>>

sharedVars == <<foreign>>

retryVars == <<rpc, waitUntilAvailable, now, startedAt, maxTime, attempts,
               sleeps, lastError, observedAt, thrown>>

updateVars == <<ustack, existingScopes, exc, started, result, entryEmpty>>

vars == <<genVars, introVars, mergeVars, typesVars, sharedVars, retryVars,
          updateVars>>

\* What the steps of generateQB's run leave alone.
otherThanGen ==
    <<introVars, mergeVars, typesVars, sharedVars, retryVars, updateVars>>

\* What the steps of the introspection leave alone.
otherThanIntro ==
    <<genVars, mergeVars, typesVars, sharedVars, retryVars, updateVars>>

\* What the steps of the merge leave alone.
otherThanMerge ==
    <<genVars, introVars, typesVars, sharedVars, retryVars, updateVars>>

\* What the steps of the loop over types.values() leave alone.
otherThanTypes ==
    <<genVars, introVars, mergeVars, sharedVars, retryVars, updateVars>>

\* What the other process leaves alone, the files apart.
otherThanShared ==
    <<introVars, mergeVars, typesVars, retryVars, updateVars>>

\* What the steps of retryingConnect leave alone.
otherThanRetry ==
    <<genVars, introVars, mergeVars, typesVars, sharedVars, updateVars>>

\* What the steps of update() leave alone.
otherThanUpdate ==
    <<genVars, introVars, mergeVars, typesVars, sharedVars, retryVars>>

-----------------------------------------------------------------------------
(* Values *)

\* export type Target
Targets == {"ts", "esm", "cjs", "mts", "deno"}

\* The catalog queries of the Promise.all, in the order of the array.
CatalogQueries == <<"types", "scalars", "casts", "functions", "operators", "globals">>

\* The generators, in the order generateQB calls them.
Generators == <<"generateRuntimeSpec", "generateCastMaps", "generateScalars",
                "generateObjectTypes", "generateFunctionTypes",
                "generateOperators", "generateSetImpl", "generateGlobals">>

\* concurrency: 5 of createClient
Concurrency == 5

\* export const configFileHeader (the back quotes of the source string are
\* left out: the lexer does not take them inside a string)
configFileHeader == "// EdgeDB query builder. To update, run npx edgeql-js"

\* A token of a file's content. kind says what a quoted reference points
\* into:  "reflection"  "../reflection<ref><ext>"
\*        "generated"   "@generated/<ref><ext>"
\*        "parent"      "../<ref><ext>"
\*        "local"       "./<ref><ext>"
\*        "dist"        "edgedb/dist/reflection<ref><ext>"
\*        "_src"        "edgedb/_src/reflection<ref><ext>"
\* any other kind is text that holds no quoted reference. ext is the
\* sequence of suffixes the reference ends with.
Tok(kind, ref, ext) == [kind |-> kind, ref |-> ref, ext |-> ext]

\* oldContents = "" : the content compared against when the file cannot be read
EmptyContents == <<>>

-----------------------------------------------------------------------------
(* The file system *)

Exists(files, p) == p \in DOMAIN files

\* fs.writeFile(p, c)
WriteFile(files, p, c) ==
    [q \in (DOMAIN files) \cup {p} |-> IF q = p THEN c ELSE files[q]]

\* fs.rm(p)
Rm(files, p) == [q \in (DOMAIN files) \ {p} |-> files[q]]

\* let oldContents = ""; try { oldContents = await readFileUtf8(p) } catch {}
ReadOld(files, p) == IF Exists(files, p) THEN files[p] ELSE EmptyContents

\* path.join(outputDir, "config.json")
configPath == <<"", <<"config", "json">>>>

-----------------------------------------------------------------------------
(* The module graph: DirBuilder, as generateQB uses it *)

\* The modes of a call of dir.write.
Modes == {"ts", "js", "dts"}

\* The schemas a run may find in the database.
Schemas == {"A", "B"}

\* The DirBuilder after the generators and the index file of generateQB: the
\* builders in the order of its map. ver stands for the declarations the
\* builder holds, modes for the modes in which it renders to something
\* (builder.isEmpty() is judged after the dialect filter). Schema "B" is
\* schema "A" with the runtime declarations of module default removed.
Graph(s) ==
    IF s = "A"
    THEN << [fn |-> <<"", "index">>, ver |-> "A", modes |-> Modes],
            [fn |-> <<"modules", "default">>, ver |-> "A", modes |-> Modes] >>
    ELSE << [fn |-> <<"", "index">>, ver |-> "B", modes |-> Modes],
            [fn |-> <<"modules", "default">>, ver |-> "B", modes |-> {"ts", "dts"}] >>

\* builder.isEmpty() under the params of the pass
IsEmpty(builder, params) == params.mode \notin builder.modes

\* builder.render(params): the imports and exports in the pass's module kind
\* with its module extension, then the fragments of the pass's mode.
Render(builder, params) ==
    << Tok(params.moduleKind, builder.ver, params.moduleExtension),
       Tok(params.mode, builder.ver, <<>>) >>

\* path.join(dir, fn + params.fileExtension)
Dest(builder, params) == <<builder.fn[1], <<builder.fn[2]>> \o params.fileExtension>>

WriteParams(mode, moduleKind, fileExtension, moduleExtension) ==
    [mode |-> mode, moduleKind |-> moduleKind,
     fileExtension |-> fileExtension, moduleExtension |-> moduleExtension]

\* The two calls of dir.write of targets cjs and esm given the file
\* extension of the first one.
TargetPassesOneExtension(t) ==
    IF t = "ts" THEN
        << WriteParams("ts", "esm", <<"ts">>, <<>>) >>
    ELSE IF t = "mts" THEN
        << WriteParams("ts", "esm", <<"mts">>, <<".mjs">>) >>
    ELSE IF t = "cjs" THEN
        << WriteParams("js", "cjs", <<"js">>, <<>>),
           WriteParams("dts", "esm", <<"js">>, <<>>) >>
    ELSE IF t = "esm" THEN
        << WriteParams("js", "esm", <<"mjs">>, <<".mjs">>),
           WriteParams("dts", "esm", <<"mjs">>, <<>>) >>
    ELSE IF t = "deno" THEN
        << WriteParams("ts", "esm", <<"ts">>, <<".ts">>) >>
    ELSE << >>

\* The calls of dir.write that generateQB makes for a target, in order.
TargetPasses(t) ==
    IF t = "ts" THEN
        << WriteParams("ts", "esm", <<"ts">>, <<>>) >>
    ELSE IF t = "mts" THEN
        << WriteParams("ts", "esm", <<"mts">>, <<".mjs">>) >>
    ELSE IF t = "cjs" THEN
        << WriteParams("js", "cjs", <<"js">>, <<>>),
           WriteParams("dts", "esm", <<"d", "ts">>, <<>>) >>
    ELSE IF t = "esm" THEN
        << WriteParams("js", "esm", <<"mjs">>, <<".mjs">>),
           WriteParams("dts", "esm", <<"d", "ts">>, <<>>) >>
    ELSE IF t = "deno" THEN
        << WriteParams("ts", "esm", <<"ts">>, <<".ts">>) >>
    ELSE << >>

-----------------------------------------------------------------------------
(* The static syntax files *)

\* fileName.endsWith("." + the components of suffix)
EndsWith(fileName, suffix) ==
    /\ Len(fileName) > Len(suffix)
    /\ SubSeq(fileName, Len(fileName) - Len(suffix) + 1, Len(fileName)) = suffix

\* const filetype = fileName.endsWith(".js") ? "js" : ...
FileType(fileName) ==
    IF EndsWith(fileName, <<"js">>) THEN "js"
    ELSE IF EndsWith(fileName, <<"mjs">>) THEN "esm"
    ELSE IF EndsWith(fileName, <<"mts">>) THEN "mts"
    ELSE IF EndsWith(fileName, <<"d", "ts">>) THEN "dts"
    ELSE IF EndsWith(fileName, <<"ts">>) THEN "ts"
    ELSE "null"

\* The condition of the `continue` of the syntax loop.
SkipSyntaxFile(t, fileName) ==
    LET filetype == FileType(fileName) IN
    \/ (t = "deno" /\ filetype # "ts")
    \/ (t = "ts" /\ filetype # "ts")
    \/ (t = "mts" /\ filetype # "mts")
    \/ (t = "esm" /\ ~(filetype = "esm" \/ filetype = "dts"))
    \/ (t = "cjs" /\ ~(filetype = "js" \/ filetype = "dts"))

\* readDir(syntaxDir): the files of the package's syntax directory.
syntaxFiles ==
    << <<"external", "ts">>, <<"syntax", "d", "ts">>, <<"syntax", "js">>,
       <<"syntax", "mjs">>, <<"syntax", "mts">>, <<"syntax", "ts">>,
       <<"README", "md">> >>

\* What the syntax directory may hold: "clean" files, "bad" ones (the
\* runtime files of stem syntax hold the disallowed reference) or some
\* "empty" files.
SrcKinds == {"clean", "bad", "empty"}

\* The disallowed reference: "edgedb/dist/reflection", quotes included.
DisallowedRef == Tok("dist", "", <<>>)

CleanSource(fileName) ==
    << Tok("reflection", "/index", <<>>), Tok("generated", "castMaps", <<>>),
       Tok("local", "path", <<>>), Tok("code", fileName[1], <<>>) >>

\* readFileUtf8(path.join(syntaxDir, fileName))
SyntaxSource(kind, fileName) ==
    IF kind = "bad" /\ fileName[1] = "syntax" /\ FileType(fileName) # "dts"
    THEN CleanSource(fileName) \o <<DisallowedRef>>
    ELSE IF kind = "empty" /\ FileType(fileName) \in {"ts", "dts"}
    THEN EmptyContents
    ELSE CleanSource(fileName)

\* contents.indexOf(`"edgedb/dist/reflection"`) !== -1
HasDisallowedRef(contents) == \E i \in 1..Len(contents) : contents[i] = DisallowedRef

localExtMap(t) == IF t \in {"esm", "mts"} THEN <<".mjs">> ELSE <<>>
pkgExtMap(t) == IF t \in {"esm", "mts"} THEN <<".js">> ELSE <<>>

\* .replace(/"\.\.\/reflection(...)"/g, ...): target deno keeps what follows
\* "../reflection", the other targets keep the path and put pkgExt for the
\* extension.
ReplaceReflection(t, tok) ==
    IF tok.kind # "reflection" THEN tok
    ELSE IF t = "deno" THEN Tok("_src", tok.ref, tok.ext)
    ELSE Tok("dist", tok.ref, pkgExtMap(t))

\* .replace(/"@generated\/(.*)"/g, `"../$1"`)
ReplaceGenerated(tok) ==
    IF tok.kind = "generated" THEN Tok("parent", tok.ref, tok.ext) ELSE tok

\* if (localExt) contents.replace(/"(\.?\.\/.+)"/g, `"$1${localExt}"`)
AppendLocalExt(t, tok) ==
    IF localExtMap(t) # <<>> /\ tok.kind \in {"local", "parent", "reflection"}
    THEN Tok(tok.kind, tok.ref, tok.ext \o localExtMap(t))
    ELSE tok

\* The rewriting of a syntax file's contents for the target (one reference
\* per line taken).
Rewrite(t, contents) ==
    [i \in 1..Len(contents) |->
        AppendLocalExt(t, ReplaceGenerated(ReplaceReflection(t, contents[i])))]

\* path.join(syntaxOutDir, fileName)
SyntaxOutPath(fileName) == <<"syntax", fileName>>

\* `${configFileHeader}\n${JSON.stringify({target})}\n`
ConfigContents(t) == << Tok("header", configFileHeader, <<>>), Tok("json", "target", <<t>>) >>

-----------------------------------------------------------------------------
(* The output directory *)

EmptyFs == [q \in {} |-> EmptyContents]

FileExtensions == << <<"d", "ts">>, <<"js">>, <<"mjs">>, <<"mts">>, <<"ts">> >>

\* Files of the output directory that no run writes.
stalePaths == << <<"", <<"notes", "txt">>>>, <<"syntax", <<"old", "ts">>>> >>

\* Every path of the model, in the order walk(outputDir) lists them.
AllPaths ==
    [i \in 1..Len(FileExtensions) |-> <<"", <<"index">> \o FileExtensions[i]>>]
    \o [i \in 1..Len(FileExtensions) |-> <<"modules", <<"default">> \o FileExtensions[i]>>]
    \o [i \in 1..Len(syntaxFiles) |-> SyntaxOutPath(syntaxFiles[i])]
    \o <<configPath>> \o stalePaths

InSet(S) == LET Test(p) == p \in S IN SelectSeq(AllPaths, Test)

\* A walk that lists nothing.
walkNothing(files) == <<>>

\* await walk(outputDir): every file under the output directory
walk(files) == InSet(DOMAIN files)

Range(seq) == {seq[i] : i \in 1..Len(seq)}

\* The directories a run may find: an empty one, and one that holds files
\* no run produces (one of them in the place of a generated file).
InitialFs ==
    { EmptyFs,
      [q \in Range(stalePaths) \cup {<<"", <<"index", "js">>>>} |-> <<Tok("code", "stale", <<>>)>>] }

DirsOf(files) == {q[1] : q \in DOMAIN files} \ {""}

LogOp(op, path) == [op |-> op, path |-> path]

NoRun == [ok |-> FALSE, target |-> "none", schema |-> "none", srcKind |-> "none",
          written |-> {}, fs |-> EmptyFs]

ThisRun == [ok |-> TRUE, target |-> target, schema |-> schema, srcKind |-> srcKind,
            written |-> written, fs |-> fs]

-----------------------------------------------------------------------------
(* generateQB *)

GenStart(files) ==
    /\ pc = "idle"
    /\ run = 0
    /\ target = "none"
    /\ schema = "none"
    /\ srcKind = "none"
    /\ clientCreated = FALSE
    /\ closeCount = 0
    /\ err = "none"
    /\ failedQuery = 0
    /\ gensInvoked = 0
    /\ fs = files
    /\ dirs = DirsOf(files)
    /\ initialFiles = {}
    /\ written = {}
    /\ snapshots = 0
    /\ passIdx = 1
    /\ fileIdx = 1
    /\ syntaxIdx = 1
    /\ delIdx = 1
    /\ oplog = <<>>
    /\ fs0 = files
    /\ dirs0 = DirsOf(files)
    /\ prev = NoRun

\* The first call of generateQB finds one of the directories of InitialFs.
InitGen == \E files \in InitialFs : GenStart(files)

\* No run of generateQB.
IdleGen == GenStart(EmptyFs)

\* A call of generateQB({outputDir, connectionConfig, target}): the first one, or
\* the next one after a run that returned.
StartRun(t, s, k) ==
    /\ pc \in {"idle", "done"}
    /\ run < MaxRuns
    /\ run' = run + 1
    /\ target' = t
    /\ schema' = s
    /\ srcKind' = k
    /\ prev' = IF pc = "done" THEN ThisRun ELSE prev
    /\ clientCreated' = FALSE
    /\ closeCount' = 0
    /\ err' = "none"
    /\ failedQuery' = 0
    /\ gensInvoked' = 0
    /\ initialFiles' = {}
    /\ written' = {}
    /\ snapshots' = 0
    /\ passIdx' = 1
    /\ fileIdx' = 1
    /\ syntaxIdx' = 1
    /\ delIdx' = 1
    /\ oplog' = <<>>
    /\ fs0' = fs
    /\ dirs0' = dirs
    /\ pc' = "createClient"
    /\ UNCHANGED <<fs, dirs>>
    /\ UNCHANGED otherThanGen

\* try { cxn = createClient({...connectionConfig, concurrency: 5}) }
\* catch (e) { return exitWithError(...) }
CreateClient ==
    /\ pc = "createClient"
    /\ \E ok \in BOOLEAN :
        IF ok
        THEN /\ clientCreated' = TRUE
             /\ pc' = "version"
        ELSE /\ clientCreated' = FALSE
             /\ pc' = "exited"
    /\ UNCHANGED <<run, target, schema, srcKind, closeCount, err, failedQuery,
                   gensInvoked, fs, dirs, initialFiles, written, snapshots,
                   passIdx, fileIdx, syntaxIdx, delIdx, oplog, fs0, dirs0, prev>>
    /\ UNCHANGED otherThanGen

\* const version = await cxn.queryRequiredSingle(`select sys::get_version();`)
QueryVersion ==
    /\ pc = "version"
    /\ \E ok \in BOOLEAN :
        IF ok
        THEN /\ pc' = "queries"
             /\ err' = err
        ELSE /\ pc' = "finally"
             /\ err' = "version"
    /\ UNCHANGED <<run, target, schema, srcKind, clientCreated, closeCount,
                   failedQuery, gensInvoked, fs, dirs, initialFiles, written,
                   snapshots, passIdx, fileIdx, syntaxIdx, delIdx, oplog, fs0,
                   dirs0, prev>>
    /\ UNCHANGED otherThanGen

\* The six queries awaited with a fallback: a rejected query is recorded and
\* the run goes on to the generators with the catalogs that arrived.
IntrospectSettled ==
    /\ pc = "queries"
    /\ \E q \in 0..Len(CatalogQueries) :
        /\ pc' = "generate"
        /\ err' = IF q = 0 THEN err ELSE "query"
        /\ failedQuery' = q
    /\ UNCHANGED <<run, target, schema, srcKind, clientCreated, closeCount,
                   gensInvoked, fs, dirs, initialFiles, written, snapshots,
                   passIdx, fileIdx, syntaxIdx, delIdx, oplog, fs0, dirs0, prev>>
    /\ UNCHANGED otherThanGen

\* await Promise.all([getTypes(..), .., getGlobals(..)]): it resolves when the
\* six queries have resolved and rejects with the first one that rejects (q).
Introspect ==
    /\ pc = "queries"
    /\ \E q \in 0..Len(CatalogQueries) :
        IF q = 0
        THEN /\ pc' = "generate"
             /\ UNCHANGED <<err, failedQuery>>
        ELSE /\ pc' = "finally"
             /\ err' = "query"
             /\ failedQuery' = q
    /\ UNCHANGED <<run, target, schema, srcKind, clientCreated, closeCount,
                   gensInvoked, fs, dirs, initialFiles, written, snapshots,
                   passIdx, fileIdx, syntaxIdx, delIdx, oplog, fs0, dirs0, prev>>
    /\ UNCHANGED otherThanGen

\* generateRuntimeSpec(generatorParams); ... generateGlobals(generatorParams);
\* one call each step, each of which may throw.
RunGenerator ==
    /\ pc = "generate"
    /\ gensInvoked < Len(Generators)
    /\ gensInvoked' = gensInvoked + 1
    /\ \E ok \in BOOLEAN :
        IF ok
        THEN /\ pc' = IF gensInvoked' = Len(Generators) THEN "index" ELSE "generate"
             /\ err' = err
        ELSE /\ pc' = "finally"
             /\ err' = "generator"
    /\ UNCHANGED <<run, target, schema, srcKind, clientCreated, closeCount,
                   failedQuery, fs, dirs, initialFiles, written, snapshots,
                   passIdx, fileIdx, syntaxIdx, delIdx, oplog, fs0, dirs0, prev>>
    /\ UNCHANGED otherThanGen

\* The imports file, the index file and the merged surface (lines 125-287);
\* dir.getModule and module.getDefaultExportKeys may throw.
BuildIndex ==
    /\ pc = "index"
    /\ \E ok \in BOOLEAN :
        IF ok
        THEN /\ pc' = "finally"
             /\ err' = err
        ELSE /\ pc' = "finally"
             /\ err' = "merge"
    /\ UNCHANGED <<run, target, schema, srcKind, clientCreated, closeCount,
                   failedQuery, gensInvoked, fs, dirs, initialFiles, written,
                   snapshots, passIdx, fileIdx, syntaxIdx, delIdx, oplog, fs0,
                   dirs0, prev>>
    /\ UNCHANGED otherThanGen

\* cxn.close() as the last statement of the try block instead of a finally:
\* an exception skips it.
FinallyOnSuccessOnly ==
    /\ pc = "finally"
    /\ closeCount' = IF err = "none" THEN closeCount + 1 ELSE closeCount
    /\ pc' = IF err = "none" THEN "walk" ELSE "failed"
    /\ UNCHANGED <<run, target, schema, srcKind, clientCreated, err,
                   failedQuery, gensInvoked, fs, dirs, initialFiles, written,
                   snapshots, passIdx, fileIdx, syntaxIdx, delIdx, oplog, fs0,
                   dirs0, prev>>
    /\ UNCHANGED otherThanGen

\* finally { await cxn.close(); } : the exception in flight, if any, goes on
\* once close() has settled.
Finally ==
    /\ pc = "finally"
    /\ closeCount' = closeCount + 1
    /\ pc' = IF err = "none" THEN "walk" ELSE "failed"
    /\ UNCHANGED <<run, target, schema, srcKind, clientCreated, err,
                   failedQuery, gensInvoked, fs, dirs, initialFiles, written,
                   snapshots, passIdx, fileIdx, syntaxIdx, delIdx, oplog, fs0,
                   dirs0, prev>>
    /\ UNCHANGED otherThanGen

\* const initialFiles = new Set(await walk(outputDir)); const written = new Set()
Snapshot ==
    /\ pc = "walk"
    /\ snapshots' = snapshots + 1
    /\ \E ok \in BOOLEAN :
        IF ok
        THEN /\ initialFiles' = Range(walk(fs))
             /\ written' = {}
             /\ pc' = "write"
             /\ err' = err
        ELSE /\ UNCHANGED <<initialFiles, written>>
             /\ pc' = "failed"
             /\ err' = "walk"
    /\ UNCHANGED <<run, target, schema, srcKind, clientCreated, closeCount,
                   failedQuery, gensInvoked, fs, dirs, passIdx, fileIdx,
                   syntaxIdx, delIdx, oplog, fs0, dirs0, prev>>
    /\ UNCHANGED otherThanGen

\* The file-system mutations of writing contents to path p when the file does
\* not hold them already, its directory made first when it is missing.
MutationsOf(files, ds, p, contents) ==
    (IF p[1] # "" /\ p[1] \notin ds THEN <<LogOp("mkdir", <<p[1], <<>>>>)>> ELSE <<>>)
    \o (IF ReadOld(files, p) # contents THEN <<LogOp("write", p)>> ELSE <<>>)

\* written.add(p); let oldContents = ""; try { oldContents = await
\* readFileUtf8(p) } catch {}; if (oldContents !== contents) await
\* fs.writeFile(p, contents)
WriteIfChanged(files, p, contents) ==
    IF ReadOld(files, p) # contents THEN WriteFile(files, p, contents) ELSE files

\* One iteration of the loop of dir.write(outputDir, params) over the builders:
\* an empty builder is skipped; the others are rendered, added to `written`
\* and written when the file on disk differs. The pass after the last builder
\* of a pass is the target's next call of dir.write.
DirWriteFile ==
    /\ pc = "write"
    /\ LET passes == TargetPasses(target)
           params == passes[passIdx]
           graph == Graph(schema)
           builder == graph[fileIdx]
           dest == Dest(builder, params)
           newContents == Render(builder, params)
           lastFile == fileIdx = Len(graph)
           lastPass == passIdx = Len(passes)
           advance ==
               /\ fileIdx' = IF lastFile THEN 1 ELSE fileIdx + 1
               /\ passIdx' = IF lastFile /\ ~lastPass THEN passIdx + 1 ELSE passIdx
               /\ pc' = IF lastFile /\ lastPass THEN "mkdir" ELSE "write"
       IN  IF IsEmpty(builder, params)
           THEN /\ advance
                /\ UNCHANGED <<fs, dirs, written, oplog, err>>
           ELSE \E ok \in BOOLEAN :
                IF ok
                THEN /\ advance
                     /\ dirs' = dirs \cup ({dest[1]} \ {""})
                     /\ written' = written \cup {dest}
                     /\ fs' = WriteIfChanged(fs, dest, newContents)
                     /\ oplog' = oplog \o MutationsOf(fs, dirs, dest, newContents)
                     /\ err' = err
                ELSE /\ pc' = "failed"
                     /\ err' = "write"
                     /\ UNCHANGED <<fs, dirs, written, oplog, passIdx, fileIdx>>
    /\ UNCHANGED <<run, target, schema, srcKind, clientCreated, closeCount,
                   failedQuery, gensInvoked, initialFiles, snapshots, syntaxIdx,
                   delIdx, fs0, dirs0, prev>>
    /\ UNCHANGED otherThanGen

\* if (!(await exists(syntaxOutDir))) await fs.mkdir(syntaxOutDir);
\* const syntaxFiles = await readDir(syntaxDir)
MkdirSyntax ==
    /\ pc = "mkdir"
    /\ \E ok \in BOOLEAN :
        IF ok
        THEN /\ dirs' = dirs \cup {"syntax"}
             /\ oplog' = IF "syntax" \in dirs THEN oplog
                         ELSE Append(oplog, LogOp("mkdir", <<"syntax", <<>>>>))
             /\ pc' = "syntax"
             /\ err' = err
        ELSE /\ pc' = "failed"
             /\ err' = "mkdir"
             /\ UNCHANGED <<dirs, oplog>>
    /\ UNCHANGED <<run, target, schema, srcKind, clientCreated, closeCount,
                   failedQuery, gensInvoked, fs, initialFiles, written,
                   snapshots, passIdx, fileIdx, syntaxIdx, delIdx, fs0, dirs0,
                   prev>>
    /\ UNCHANGED otherThanGen

\* One iteration of `for (const fileName of syntaxFiles)`.
CopySyntaxFile ==
    /\ pc = "syntax"
    /\ LET fileName == syntaxFiles[syntaxIdx]
           contents == SyntaxSource(srcKind, fileName)
           rewritten == Rewrite(target, contents)
           outputPath == SyntaxOutPath(fileName)
           advance ==
               /\ syntaxIdx' = syntaxIdx + 1
               /\ pc' = IF syntaxIdx = Len(syntaxFiles) THEN "config" ELSE "syntax"
       IN  IF SkipSyntaxFile(target, fileName)
           THEN /\ advance
                /\ UNCHANGED <<fs, written, oplog, err>>
           ELSE IF HasDisallowedRef(contents)
           THEN \* throw new Error("No directory imports allowed in `syntax` files.")
                /\ pc' = "failed"
                /\ err' = "InvalidTargetFile"
                /\ UNCHANGED <<fs, written, oplog, syntaxIdx>>
           ELSE \E ok \in BOOLEAN :
                IF ok
                THEN /\ advance
                     /\ written' = written \cup {outputPath}
                     /\ fs' = WriteIfChanged(fs, outputPath, rewritten)
                     /\ oplog' = oplog \o MutationsOf(fs, dirs, outputPath, rewritten)
                     /\ err' = err
                ELSE /\ pc' = "failed"
                     /\ err' = "copy"
                     /\ UNCHANGED <<fs, written, oplog, syntaxIdx>>
    /\ UNCHANGED <<run, target, schema, srcKind, clientCreated, closeCount,
                   failedQuery, gensInvoked, dirs, initialFiles, snapshots,
                   passIdx, fileIdx, delIdx, fs0, dirs0, prev>>
    /\ UNCHANGED otherThanGen

\* config.json written and not added to `written`.
WriteConfigNotRecorded ==
    /\ pc = "config"
    /\ fs' = WriteFile(fs, configPath, ConfigContents(target))
    /\ oplog' = Append(oplog, LogOp("write", configPath))
    /\ pc' = "delete"
    /\ UNCHANGED <<run, target, schema, srcKind, clientCreated, closeCount, err,
                   failedQuery, gensInvoked, dirs, initialFiles, written,
                   snapshots, passIdx, fileIdx, syntaxIdx, delIdx, fs0, dirs0,
                   prev>>
    /\ UNCHANGED otherThanGen

\* await fs.writeFile(configPath, ...); written.add(configPath)
WriteConfig ==
    /\ pc = "config"
    /\ \E ok \in BOOLEAN :
        IF ok
        THEN /\ fs' = WriteFile(fs, configPath, ConfigContents(target))
             /\ oplog' = Append(oplog, LogOp("write", configPath))
             /\ written' = written \cup {configPath}
             /\ pc' = "delete"
             /\ err' = err
        ELSE /\ pc' = "failed"
             /\ err' = "config"
             /\ UNCHANGED <<fs, oplog, written>>
    /\ UNCHANGED <<run, target, schema, srcKind, clientCreated, closeCount,
                   failedQuery, gensInvoked, dirs, initialFiles, snapshots,
                   passIdx, fileIdx, syntaxIdx, delIdx, fs0, dirs0, prev>>
    /\ UNCHANGED otherThanGen

\* The loop's test with its sense inverted: the files of this run are the
\* ones removed.
ShouldDeleteInverted(file, writtenSet) == file \in writtenSet

\* if (written.has(file)) continue; await fs.rm(file)
ShouldDelete(file, writtenSet) == file \notin writtenSet

\* The loop over the files the directory holds when the loop runs, not over
\* the snapshot.
FilesToVisitRewalked(initial, files) == walk(files)

\* for (const file of initialFiles): the files of the snapshot, whatever the
\* directory holds by now.
FilesToVisit(initial, files) == InSet(initial)

\* One iteration of `for (const file of initialFiles)`, taken at one of the
\* positions `at` of generateQB.
DeleteLoopStep(at) ==
    /\ pc \in at
    /\ delIdx <= Len(FilesToVisit(initialFiles, fs))
    /\ LET file == FilesToVisit(initialFiles, fs)[delIdx]
       IN  IF ~ShouldDelete(file, written)
           THEN /\ delIdx' = delIdx + 1
                /\ UNCHANGED <<fs, oplog, pc, err>>
           ELSE \E ok \in BOOLEAN :
                IF ok
                THEN /\ fs' = Rm(fs, file)
                     /\ oplog' = Append(oplog, LogOp("rm", file))
                     /\ delIdx' = delIdx + 1
                     /\ UNCHANGED <<pc, err>>
                ELSE /\ pc' = "failed"
                     /\ err' = "rm"
                     /\ UNCHANGED <<fs, oplog, delIdx>>
    /\ UNCHANGED <<run, target, schema, srcKind, clientCreated, closeCount,
                   failedQuery, gensInvoked, dirs, initialFiles, written,
                   snapshots, passIdx, fileIdx, syntaxIdx, fs0, dirs0, prev>>
    /\ UNCHANGED otherThanGen

\* The deletions not held back until the writes are over: they go on while
\* the syntax files and config.json are still to be written.
DeleteVestigialEarly == DeleteLoopStep({"syntax", "config", "delete"})

\* The loop `for (const file of initialFiles)`, after the last write.
DeleteVestigial == DeleteLoopStep({"delete"})

\* The end of the loop: generateQB returns.
Return ==
    /\ pc = "delete"
    /\ delIdx > Len(FilesToVisit(initialFiles, fs))
    /\ pc' = "done"
    /\ UNCHANGED <<run, target, schema, srcKind, clientCreated, closeCount, err,
                   failedQuery, gensInvoked, fs, dirs, initialFiles, written,
                   snapshots, passIdx, fileIdx, syntaxIdx, delIdx, oplog, fs0,
                   dirs0, prev>>
    /\ UNCHANGED otherThanGen

-----------------------------------------------------------------------------
(* Introspection on the client's connections *)

\* Query 0 is `select sys::get_version();`, queries 1..6 are the catalog
\* queries of the Promise.all.
QueryIds == 0..Len(CatalogQueries)

Running(qs) == {q \in QueryIds : qs[q] = "running"}

IdleIntro ==
    /\ ipos = "start"
    /\ issued = 0
    /\ qstate = [q \in QueryIds |-> "new"]
    /\ queue = <<>>

\* The client hands a query to one of its connections when fewer than
\* `concurrency` operations are in flight, and makes it wait in line otherwise.
Acquire(q) ==
    IF Cardinality(Running(qstate)) < Concurrency
    THEN /\ qstate' = [qstate EXCEPT ![q] = "running"]
         /\ queue' = queue
    ELSE /\ qstate' = [qstate EXCEPT ![q] = "queued"]
         /\ queue' = Append(queue, q)

\* A query that settled gives its connection to the first query in line.
Release(q, outcome) ==
    IF queue = <<>>
    THEN /\ qstate' = [qstate EXCEPT ![q] = outcome]
         /\ queue' = queue
    ELSE /\ qstate' = [qstate EXCEPT ![q] = outcome, ![Head(queue)] = "running"]
         /\ queue' = Tail(queue)

\* Each catalog query called only when the one before it has resolved.
CanIssueAfterPrevious(q) ==
    /\ issued = q - 1
    /\ \A r \in 1..(q - 1) : qstate[r] = "done"

\* The elements of the array given to Promise.all are evaluated one after the
\* other, each call handing its query to the client before it returns its
\* promise: none waits for a result.
CanIssue(q) == issued = q - 1

\* generateQB is at an await: the continuations of settled queries may run.
Suspended ==
    \/ ipos \in {"awaitVersion", "awaitAll", "resolved", "rejected"}
    \/ ipos = "issuing" /\ ~CanIssue(issued + 1)

\* cxn.queryRequiredSingle(`select sys::get_version();`)
IssueVersion ==
    /\ ipos = "start"
    /\ Acquire(0)
    /\ ipos' = "awaitVersion"
    /\ UNCHANGED issued
    /\ UNCHANGED otherThanIntro

\* const version = await ... : generateQB goes on, or the rejection is thrown.
ResumeAfterVersion ==
    /\ ipos = "awaitVersion"
    /\ qstate[0] \in {"done", "failed"}
    /\ ipos' = IF qstate[0] = "done" THEN "issuing" ELSE "rejected"
    /\ UNCHANGED <<issued, qstate, queue>>
    /\ UNCHANGED otherThanIntro

\* getTypes(cxn, ..), getScalars(cxn, ..), ... : the next element of the array
IssueQuery ==
    /\ ipos = "issuing"
    /\ issued < Len(CatalogQueries)
    /\ CanIssue(issued + 1)
    /\ Acquire(issued + 1)
    /\ issued' = issued + 1
    /\ ipos' = IF issued' = Len(CatalogQueries) THEN "awaitAll" ELSE "issuing"
    /\ UNCHANGED otherThanIntro

\* The database answers a query in flight, with a result or with an error.
SettleQuery(q, outcome) ==
    /\ Suspended
    /\ qstate[q] = "running"
    /\ Release(q, outcome)
    /\ UNCHANGED <<ipos, issued>>
    /\ UNCHANGED otherThanIntro

\* await Promise.all([...]) rejects as soon as one query has rejected
PromiseAllRejects ==
    /\ ipos \in {"awaitAll", "issuing"}
    /\ Suspended
    /\ \E q \in 1..issued : qstate[q] = "failed"
    /\ ipos' = "rejected"
    /\ UNCHANGED <<issued, qstate, queue>>
    /\ UNCHANGED otherThanIntro

\* await Promise.all([...]) resolves when the six queries have resolved
PromiseAllResolves ==
    /\ ipos = "awaitAll"
    /\ \A q \in 1..Len(CatalogQueries) : qstate[q] = "done"
    /\ ipos' = "resolved"
    /\ UNCHANGED <<issued, qstate, queue>>
    /\ UNCHANGED otherThanIntro

NextIntro ==
    \/ IssueVersion
    \/ ResumeAfterVersion
    \/ IssueQuery
    \/ \E q \in QueryIds, outcome \in {"done", "failed"} : SettleQuery(q, outcome)
    \/ PromiseAllRejects
    \/ PromiseAllResolves

-----------------------------------------------------------------------------
(* The merged default export of the index file *)

Reverse(seq) == [i \in 1..Len(seq) |-> seq[Len(seq) + 1 - i]]

\* The keys of the $syntax entry of spreadModules.
syntaxKeys ==
    {"ASC", "DESC", "EMPTY_FIRST", "EMPTY_LAST", "alias", "array", "cast",
     "detached", "for", "insert", "is", "literal", "namedTuple", "optional",
     "select", "set", "tuple", "with", "withParams"}

\* const spreadModules: an entry has its keys or the module they are read
\* from ("none" and hasKeys = FALSE stand for the fields left out).
spreadModules ==
    << [name |-> "$op", hasKeys |-> TRUE, keys |-> {"op"}, module |-> "none"],
       [name |-> "$syntax", hasKeys |-> TRUE, keys |-> syntaxKeys, module |-> "none"],
       [name |-> "_default", hasKeys |-> FALSE, keys |-> {}, module |-> "default"],
       [name |-> "_std", hasKeys |-> FALSE, keys |-> {}, module |-> "std"] >>

\* The names a module of the schema may export: one that $op has, one that
\* $syntax has, one that only schema modules have, and the name of a module.
ExportKeys == {"op", "alias", "User", "math"}

\* The modules in the order of the map dir._modules. dir.getModule("default")
\* and dir.getModule("std") register theirs when the generators did not.
moduleOrder == <<"default", "std", "math", "op">>

\* What dir._modules may hold once the generators have run: per module,
\* whether its builder is empty and the keys of its default export.
ModuleMaps ==
    LET Spread == [{"default", "std"} -> [empty : BOOLEAN, keys : SUBSET ExportKeys]]
        With(mods, name, module) == [m \in DOMAIN mods \cup {name} |->
                                        IF m = name THEN module ELSE mods[m]]
    IN  Spread \cup {With(mods, name, [empty |-> e, keys |-> {}]) :
                        mods \in Spread, name \in {"math", "op"}, e \in BOOLEAN}

\* The modules registered, in the map's order.
RegisteredModules(mods) ==
    LET Test(m) == m \in DOMAIN mods IN SelectSeq(moduleOrder, Test)

\* The entry is not skipped whatever its module holds.
SkipSpreadNever(mods, entry) == FALSE

\* if (module?.isEmpty()) continue
SkipSpread(mods, entry) == entry.module # "none" /\ mods[entry.module].empty

\* keys = keys ?? module!.getDefaultExportKeys()
ResolveKeys(mods, entry) ==
    IF entry.hasKeys THEN entry.keys ELSE mods[entry.module].keys

\* The spreads written in the order of spreadModules.
ValueSpreadOrderAsDeclared == spreadModules

\* for (const {name, module} of [...spreadModules].reverse())
ValueSpreadOrder == Reverse(spreadModules)

\* The set of claimed keys empty at the start.
SeedEmpty(mods) == {}

\* new Set<string>(dir._modules.keys()): the names of the registered modules
SeedExcludedKeys(mods) == DOMAIN mods

IdleMerge ==
    /\ mpc = "idle"
    /\ modules = [m \in {"default", "std"} |-> [empty |-> TRUE, keys |-> {}]]
    /\ mi = 1
    /\ excludedKeys = {}
    /\ spreadTypes = <<>>
    /\ typeEntries = <<>>
    /\ valueSpreads = <<>>
    /\ valueEntries = <<>>
    /\ imports = {}

\* const excludedKeys = new Set<string>(dir._modules.keys());
\* const spreadTypes: string[] = [];
InitMerge ==
    /\ mpc = "spread"
    /\ modules \in ModuleMaps
    /\ mi = 1
    /\ excludedKeys = SeedExcludedKeys(modules)
    /\ spreadTypes = <<>>
    /\ typeEntries = <<>>
    /\ valueSpreads = <<>>
    /\ valueEntries = <<>>
    /\ imports = {}

\* One iteration of `for (let {name, keys, module} of spreadModules)`.
SpreadTypeStep ==
    /\ mpc = "spread"
    /\ LET entry == spreadModules[mi]
           keys == ResolveKeys(modules, entry)
           conflictingKeys == {key \in keys : key \in excludedKeys}
       IN  IF SkipSpread(modules, entry)
           THEN UNCHANGED <<spreadTypes, excludedKeys>>
           ELSE /\ spreadTypes' = Append(spreadTypes,
                        [name |-> entry.name, omit |-> conflictingKeys,
                         omitDollarPrefixed |-> (entry.name = "$syntax")])
                /\ excludedKeys' = excludedKeys \cup keys
    /\ mi' = IF mi = Len(spreadModules) THEN 1 ELSE mi + 1
    /\ mpc' = IF mi = Len(spreadModules) THEN "type" ELSE "spread"
    /\ UNCHANGED <<modules, typeEntries, valueSpreads, valueEntries, imports>>
    /\ UNCHANGED otherThanMerge

\* t`: ${spreadTypes.reverse().join(" & \n  ")} & {`
JoinSpreadTypes ==
    /\ mpc = "type"
    /\ spreadTypes' = Reverse(spreadTypes)
    /\ mpc' = "typeEntries"
    /\ UNCHANGED <<modules, mi, excludedKeys, typeEntries, valueSpreads,
                   valueEntries, imports>>
    /\ UNCHANGED otherThanMerge

\* The entry of the merged type written for every registered module, the
\* empty ones too.
TypeEntryStepAll ==
    /\ mpc = "typeEntries"
    /\ LET mods == RegisteredModules(modules)
           moduleName == mods[mi]
       IN  /\ typeEntries' = Append(typeEntries, moduleName)
           /\ mi' = IF mi = Len(mods) THEN 1 ELSE mi + 1
           /\ mpc' = IF mi = Len(mods) THEN "valueSpreads" ELSE "typeEntries"
    /\ UNCHANGED <<modules, excludedKeys, spreadTypes, valueSpreads,
                   valueEntries, imports>>
    /\ UNCHANGED otherThanMerge

\* One iteration of the first `for (const [moduleName, internalName] of
\* dir._modules)`: the module's entry of the merged type.
TypeEntryStep ==
    /\ mpc = "typeEntries"
    /\ LET mods == RegisteredModules(modules)
           moduleName == mods[mi]
       IN  /\ typeEntries' = IF modules[moduleName].empty THEN typeEntries
                             ELSE Append(typeEntries, moduleName)
           /\ mi' = IF mi = Len(mods) THEN 1 ELSE mi + 1
           /\ mpc' = IF mi = Len(mods) THEN "valueSpreads" ELSE "typeEntries"
    /\ UNCHANGED <<modules, excludedKeys, spreadTypes, valueSpreads,
                   valueEntries, imports>>
    /\ UNCHANGED otherThanMerge

\* One iteration of the loop over the reversed spreadModules: the entry's
\* spread in the merged value.
ValueSpreadStep ==
    /\ mpc = "valueSpreads"
    /\ LET entry == ValueSpreadOrder[mi]
       IN  /\ valueSpreads' = IF SkipSpread(modules, entry) THEN valueSpreads
                              ELSE Append(valueSpreads, entry.name)
           /\ mi' = IF mi = Len(ValueSpreadOrder) THEN 1 ELSE mi + 1
           /\ mpc' = IF mi = Len(ValueSpreadOrder) THEN "valueEntries" ELSE "valueSpreads"
    /\ UNCHANGED <<modules, excludedKeys, spreadTypes, typeEntries,
                   valueEntries, imports>>
    /\ UNCHANGED otherThanMerge

\* One iteration of the second loop over dir._modules: the module's default
\* import and its entry of the merged value.
ValueEntryStep ==
    /\ mpc = "valueEntries"
    /\ LET mods == RegisteredModules(modules)
           moduleName == mods[mi]
       IN  /\ IF modules[moduleName].empty
              THEN UNCHANGED <<valueEntries, imports>>
              ELSE /\ imports' = imports \cup {moduleName}
                   /\ valueEntries' = Append(valueEntries, moduleName)
           /\ mi' = IF mi = Len(mods) THEN 1 ELSE mi + 1
           /\ mpc' = IF mi = Len(mods) THEN "merged" ELSE "valueEntries"
    /\ UNCHANGED <<modules, excludedKeys, spreadTypes, typeEntries, valueSpreads>>
    /\ UNCHANGED otherThanMerge

NextMerge ==
    \/ SpreadTypeStep
    \/ JoinSpreadTypes
    \/ TypeEntryStep
    \/ ValueSpreadStep
    \/ ValueEntryStep

\* The entry of spreadModules of a name.
SpreadEntry(name) ==
    CHOOSE entry \in Range(spreadModules) : entry.name = name

\* What supplies key k of the object literal ExportDefault: the properties
\* written later replace the ones written before, the module entries follow
\* the spreads, and an object spread gives the keys of its module.
ValueProvider(k) ==
    LET withKey == {j \in 1..Len(valueSpreads) :
                       k \in ResolveKeys(modules, SpreadEntry(valueSpreads[j]))}
        last == CHOOSE j \in withKey : \A j2 \in withKey : j2 <= j
    IN  IF k \in Range(valueEntries) THEN <<"module", k>>
        ELSE IF withKey = {} THEN <<"none", k>>
        ELSE <<"spread", valueSpreads[last]>>

\* The keys left out of an entry's description in the merged type.
OmittedFrom(name) ==
    UNION {spreadTypes[j].omit : j \in {j2 \in 1..Len(spreadTypes) : spreadTypes[j2].name = name}}

-----------------------------------------------------------------------------
(* The lookup index typesByName *)

\* A type's name as its parts between the "::" separators: "std::str" is
\* <<"std", "str">>, the placeholder "anytype" is <<"anytype">>.
TypeNames == { <<"anytype">>, <<"anytuple">>, <<"std", "str">>, <<"default", "User">> }

\* type.name.includes("::")
IncludesColons(name) == Len(name) > 1

\* What types.values() may give: up to MaxTypes types, by their names.
TypeLists == UNION {[1..n -> TypeNames] : n \in 0..MaxTypes}

\* const typesByName: Record<string, Type> = {}
EmptyIndex == [name \in {} |-> 0]

\* typesByName[name] = type
PutByName(index, name, type) ==
    [n \in (DOMAIN index) \cup {name} |-> IF n = name THEN type ELSE index[n]]

IdleTypes ==
    /\ tpc = "idle"
    /\ types = <<>>
    /\ ti = 1
    /\ typesByName = EmptyIndex

InitTypes ==
    /\ tpc = "loop"
    /\ types \in TypeLists
    /\ ti = 1
    /\ typesByName = EmptyIndex

\* One iteration of `for (const type of types.values())`: the assignment
\* comes first; the test of the name that follows it is the last statement of
\* the body, so its `continue` and its fall-through both go to the next type.
IndexTypeStep ==
    /\ tpc = "loop"
    /\ ti <= Len(types)
    /\ typesByName' = PutByName(typesByName, types[ti], ti)
    /\ IF ~IncludesColons(types[ti])
       THEN ti' = ti + 1
       ELSE ti' = ti + 1
    /\ UNCHANGED <<tpc, types>>
    /\ UNCHANGED otherThanTypes

\* The end of the loop: typesByName goes into generatorParams.
IndexTypesDone ==
    /\ tpc = "loop"
    /\ ti > Len(types)
    /\ tpc' = "indexed"
    /\ UNCHANGED <<types, ti, typesByName>>
    /\ UNCHANGED otherThanTypes

NextTypes ==
    \/ IndexTypeStep
    \/ IndexTypesDone

-----------------------------------------------------------------------------
(* Another process on the output directory *)

\* A file next to the output directory, not under it.
outsidePath == <<"..", <<"notes", "txt">>>>

\* Where the other process may create a file: a path under the output
\* directory that no run writes, and the path outside the output directory.
ForeignPaths == {stalePaths[1], outsidePath}

IdleShared == foreign = <<>>

\* Another process creates file p once generateQB has taken its snapshot.
OtherProcessCreates(p) ==
    /\ pc \in {"write", "mkdir", "syntax", "config", "delete"}
    /\ Len(foreign) < MaxForeign
    /\ ~Exists(fs, p)
    /\ fs' = WriteFile(fs, p, <<Tok("code", "foreign", <<>>)>>)
    /\ foreign' = Append(foreign, p)
    /\ UNCHANGED <<pc, run, target, schema, srcKind, clientCreated, closeCount,
                   err, failedQuery, gensInvoked, dirs, initialFiles, written,
                   snapshots, passIdx, fileIdx, syntaxIdx, delIdx, oplog, fs0,
                   dirs0, prev>>
    /\ UNCHANGED otherThanShared

-----------------------------------------------------------------------------
(* retryingConnect *)

\* What a call of connectWithTimeout may reject with: a ClientConnectionError
\* that has the tag SHOULD_RECONNECT, a ClientConnectionError that has not,
\* and an error of another class.
ConnectErrors == {"reconnectable", "connection", "other"}

\* e instanceof errors.ClientConnectionError
IsClientConnectionError(e) == e \in {"reconnectable", "connection"}

\* The tag found on every error.
HasTagAlways(e) == TRUE

\* e.hasTag(errors.SHOULD_RECONNECT)
HasShouldReconnect(e) == e = "reconnectable"

\* The deadline counted from the clock whatever waitUntilAvailable is.
MaxTimeFromClock(wait, clock) == clock + wait

\* waitUntilAvailable === 0 ? 0 : Date.now() + waitUntilAvailable
MaxTimeOf(wait, clock) == IF wait = 0 THEN 0 ELSE clock + wait

\* The deadline never found to have passed.
PastMaxTimeNever(clock, deadline) == FALSE

\* now > maxTime
PastMaxTime(clock, deadline) == clock > deadline

\* The values of waitUntilAvailable, in ticks of the clock.
WaitValues == 0..MaxWait

\* The readings of the clock when retryingConnect is called (Date.now() is
\* the time since 1970: a positive number).
StartTimes == 1..2

IdleRetry ==
    /\ rpc = "idle"
    /\ waitUntilAvailable = 0
    /\ now = 1
    /\ startedAt = 1
    /\ maxTime = 0
    /\ attempts = 0
    /\ sleeps = 0
    /\ lastError = "none"
    /\ observedAt = 0
    /\ thrown = "none"

\* retryingConnect(connectWithTimeout, config, registry) is called.
InitRetry ==
    /\ rpc = "start"
    /\ waitUntilAvailable \in WaitValues
    /\ now \in StartTimes
    /\ startedAt = now
    /\ maxTime = 0
    /\ attempts = 0
    /\ sleeps = 0
    /\ lastError = "none"
    /\ observedAt = 0
    /\ thrown = "none"

\* const maxTime = ...
ComputeMaxTime ==
    /\ rpc = "start"
    /\ maxTime' = MaxTimeOf(waitUntilAvailable, now)
    /\ rpc' = "connect"
    /\ UNCHANGED <<waitUntilAvailable, now, startedAt, attempts, sleeps,
                   lastError, observedAt, thrown>>
    /\ UNCHANGED otherThanRetry

\* return await connectWithTimeout(address, config, registry): the call
\* settles after `elapsed` ticks, with a connection or with an error.
Connect(elapsed, outcome) ==
    /\ rpc = "connect"
    /\ now + elapsed <= MaxClock
    /\ now' = now + elapsed
    /\ attempts' = attempts + 1
    /\ IF outcome = "connected"
       THEN /\ rpc' = "returned"
            /\ lastError' = "none"
       ELSE /\ rpc' = "catch"
            /\ lastError' = outcome
    /\ UNCHANGED <<waitUntilAvailable, startedAt, maxTime, sleeps, observedAt, thrown>>
    /\ UNCHANGED otherThanRetry

\* catch (e) { ... }: the error is thrown again, or the loop goes on to sleep.
\* (The console.warn of lines 56-78 changes nothing but lastLoggingAt.)
Catch ==
    /\ rpc = "catch"
    /\ IF IsClientConnectionError(lastError)
       THEN IF HasShouldReconnect(lastError)
            THEN /\ observedAt' = now
                 /\ IF PastMaxTime(now, maxTime)
                    THEN /\ thrown' = lastError
                         /\ rpc' = "thrown"
                    ELSE /\ thrown' = thrown
                         /\ rpc' = "sleep"
            ELSE /\ thrown' = lastError
                 /\ rpc' = "thrown"
                 /\ UNCHANGED observedAt
       ELSE /\ thrown' = lastError
            /\ rpc' = "thrown"
            /\ UNCHANGED observedAt
    /\ UNCHANGED <<waitUntilAvailable, now, startedAt, maxTime, attempts,
                   sleeps, lastError>>
    /\ UNCHANGED otherThanRetry

\* await sleep(Math.trunc(10 + Math.random() * 200)): at least 10 ms go by,
\* one tick or more.
Sleep(ticks) ==
    /\ rpc = "sleep"
    /\ now + ticks <= MaxClock
    /\ now' = now + ticks
    /\ sleeps' = sleeps + 1
    /\ rpc' = "connect"
    /\ UNCHANGED <<waitUntilAvailable, startedAt, maxTime, attempts, lastError,
                   observedAt, thrown>>
    /\ UNCHANGED otherThanRetry

NextRetry ==
    \/ ComputeMaxTime
    \/ \E elapsed \in 0..2, outcome \in {"connected"} \cup ConnectErrors :
            Connect(elapsed, outcome)
    \/ Catch
    \/ \E ticks \in 1..2 : Sleep(ticks)

-----------------------------------------------------------------------------
(* update() and the shared set $existingScopes *)

\* The scope another builder (a select in progress) has put in the set.
outerScope == 0

\* A call of update() in progress: its number, cleanScopedExprs, the
\* statement it is at, and the set as the call found it.
Frame(id, clean, at, entry) == [id |-> id, clean |-> clean, at |-> at, entry |-> entry]

Top == ustack[Len(ustack)]

Pop == SubSeq(ustack, 1, Len(ustack) - 1)

At(position) == [ustack EXCEPT ![Len(ustack)].at = position]

\* $getScopedExpr(expr, $existingScopes): the scoped copy of expr is added
\* to the set given.
GetScopedExpr(scopes, id) == scopes \cup {id}

\* if (cleanScopedExprs)
ShouldClear(frame) == frame.clean

IdleUpdate ==
    /\ ustack = <<>>
    /\ existingScopes = {}
    /\ exc = "none"
    /\ started = 0
    /\ result = "none"
    /\ entryEmpty = TRUE

\* No call of update() yet: the set is empty, or another builder is at work
\* and has its scope in it.
InitUpdate ==
    /\ ustack = <<>>
    /\ existingScopes \in {{}, {outerScope}}
    /\ exc = "none"
    /\ started = 0
    /\ result = "none"
    /\ entryEmpty = TRUE

\* update(expr, shape) is called; const cleanScopedExprs =
\* $existingScopes.size === 0. The call is made by the program (no call in
\* progress) or by the shape callback of the call in progress.
CallUpdate ==
    /\ exc = "none"
    /\ started < MaxUpdates
    /\ Len(ustack) < MaxDepth
    /\ ustack # <<>> => Top.at = "shape"
    /\ started' = started + 1
    /\ ustack' = Append(ustack,
            Frame(started + 1, existingScopes = {}, "getScope", existingScopes))
    /\ result' = IF ustack = <<>> THEN "running" ELSE result
    /\ entryEmpty' = IF ustack = <<>> THEN existingScopes = {} ELSE entryEmpty
    /\ UNCHANGED <<existingScopes, exc>>
    /\ UNCHANGED otherThanUpdate

\* const scope = $getScopedExpr(expr as any, $existingScopes)
GetScope ==
    /\ exc = "none"
    /\ ustack # <<>>
    /\ Top.at = "getScope"
    /\ existingScopes' = GetScopedExpr(existingScopes, Top.id)
    /\ ustack' = At("shape")
    /\ UNCHANGED <<exc, started, result, entryEmpty>>
    /\ UNCHANGED otherThanUpdate

\* const resolvedShape = shape(scope): the callback returns, or it throws
\* and the exception leaves update() (which has no try block).
ShapeSettles(ok) ==
    /\ exc = "none"
    /\ ustack # <<>>
    /\ Top.at = "shape"
    /\ IF ok
       THEN /\ ustack' = At("clear")
            /\ exc' = exc
       ELSE /\ ustack' = ustack
            /\ exc' = "callback"
    /\ UNCHANGED <<existingScopes, started, result, entryEmpty>>
    /\ UNCHANGED otherThanUpdate

\* if (cleanScopedExprs) { $existingScopes.clear(); }
ClearScopes ==
    /\ exc = "none"
    /\ ustack # <<>>
    /\ Top.at = "clear"
    /\ existingScopes' = IF ShouldClear(Top) THEN {} ELSE existingScopes
    /\ ustack' = At("validate")
    /\ UNCHANGED <<exc, started, result, entryEmpty>>
    /\ UNCHANGED otherThanUpdate

\* The loop over the keys of resolvedShape, the test of updateShape,
\* $handleModifiers and $expressionify: update() returns its expression, or
\* one of them throws.
ValidateShape(ok) ==
    /\ exc = "none"
    /\ ustack # <<>>
    /\ Top.at = "validate"
    /\ IF ok
       THEN /\ ustack' = Pop
            /\ exc' = exc
            /\ result' = IF Len(ustack) = 1 THEN "returned" ELSE result
       ELSE /\ ustack' = ustack
            /\ exc' = "validation"
            /\ result' = result
    /\ UNCHANGED <<existingScopes, started, entryEmpty>>
    /\ UNCHANGED otherThanUpdate

\* The exception leaves the innermost call in progress: out of a nested call
\* it goes on through the shape callback of the call around it.
Unwind ==
    /\ exc # "none"
    /\ ustack # <<>>
    /\ ustack' = Pop
    /\ exc' = IF Len(ustack) = 1 THEN "none" ELSE exc
    /\ result' = IF Len(ustack) = 1 THEN "thrown" ELSE result
    /\ UNCHANGED <<existingScopes, started, entryEmpty>>
    /\ UNCHANGED otherThanUpdate

NextUpdate ==
    \/ CallUpdate
    \/ GetScope
    \/ \E ok \in BOOLEAN : ShapeSettles(ok)
    \/ ClearScopes
    \/ \E ok \in BOOLEAN : ValidateShape(ok)
    \/ Unwind

-----------------------------------------------------------------------------
(* Specifications *)

Next ==
    \/ \E t \in Targets, s \in Schemas, k \in SrcKinds : StartRun(t, s, k)
    \/ CreateClient
    \/ QueryVersion
    \/ Introspect
    \/ RunGenerator
    \/ BuildIndex
    \/ Finally
    \/ Snapshot
    \/ DirWriteFile
    \/ MkdirSyntax
    \/ CopySyntaxFile
    \/ WriteConfig
    \/ DeleteVestigial
    \/ Return

\* Nothing else runs.
IdleOthers == IdleTypes /\ IdleShared /\ IdleRetry /\ IdleUpdate

Init == InitGen /\ IdleIntro /\ IdleMerge /\ IdleOthers

Spec == Init /\ [][Next]_vars

\* The event loop runs every continuation that is ready, and the database
\* answers every query in flight.
InitIntrospect == IdleGen /\ IdleIntro /\ IdleMerge /\ IdleOthers

SpecIntrospect ==
    /\ InitIntrospect
    /\ [][NextIntro]_vars
    /\ WF_vars(NextIntro)

InitMergeSpec == IdleGen /\ IdleIntro /\ InitMerge /\ IdleOthers

SpecMerge == InitMergeSpec /\ [][NextMerge]_vars

InitTypesSpec ==
    /\ IdleGen /\ IdleIntro /\ IdleMerge /\ InitTypes /\ IdleShared /\ IdleRetry
    /\ IdleUpdate

SpecTypes == InitTypesSpec /\ [][NextTypes]_vars

\* generateQB with another process at work in the same place.
NextShared ==
    \/ Next
    \/ \E p \in ForeignPaths : OtherProcessCreates(p)

SpecShared == Init /\ [][NextShared]_vars

InitRetrySpec ==
    /\ IdleGen /\ IdleIntro /\ IdleMerge /\ IdleTypes /\ IdleShared /\ InitRetry
    /\ IdleUpdate

\* Every call of connectWithTimeout settles and every sleep ends.
SpecRetry ==
    /\ InitRetrySpec
    /\ [][NextRetry]_vars
    /\ WF_vars(NextRetry)

InitUpdateSpec ==
    /\ IdleGen /\ IdleIntro /\ IdleMerge /\ IdleTypes /\ IdleShared /\ IdleRetry
    /\ InitUpdate

SpecUpdate == InitUpdateSpec /\ [][NextUpdate]_vars

-----------------------------------------------------------------------------
(* Properties of generateQB *)

\* The paths the current run has removed, written and made.
Removed == {oplog[i].path : i \in {j \in 1..Len(oplog) : oplog[j].op = "rm"}}
Rewritten == {oplog[i].path : i \in {j \in 1..Len(oplog) : oplog[j].op = "write"}}

\* The current run has the input of the previous successful run.
SameInput ==
    /\ prev.ok
    /\ prev.target = target
    /\ prev.schema = schema
    /\ prev.srcKind = srcKind

\* C1: when a run has returned, every file of the snapshot initialFiles whose
\* path is not in `written` has been removed and is gone, and no path of
\* `written` has been removed.
C1_VestigialFilesDeleted ==
    pc = "done" =>
        /\ \A f \in initialFiles \ written : f \in Removed /\ ~Exists(fs, f)
        /\ \A f \in written : f \notin Removed
        /\ \A f \in written \cap initialFiles : Exists(fs, f)

\* A run that returned, found files it did not write again and files it did.
C1_Witness ==
    /\ pc = "done"
    /\ initialFiles \ written # {}
    /\ initialFiles \cap written # {}

\* C2: a run with the schema, target and syntax files of the successful run
\* before it leaves the directory as that run left it, and writes no file
\* that already held the content written.
C2_SecondRunWritesNothing ==
    (pc = "done" /\ SameInput) =>
        /\ fs = prev.fs
        /\ \A f \in Rewritten : ~(Exists(fs0, f) /\ fs0[f] = fs[f])

\* C3: after a successful run that follows a successful run, the files the
\* earlier run produced and this one did not are gone; and a run with the
\* schema and target of the run before it produces the same paths and leaves
\* absent every other file that was absent, so that what was removed stays
\* removed run after run.
C3_RemovedFilesStayRemoved ==
    (pc = "done" /\ prev.ok) =>
        /\ \A f \in prev.written \ written : ~Exists(fs, f)
        /\ (prev.schema = schema /\ prev.target = target) =>
              /\ written = prev.written
              /\ \A f \in Range(AllPaths) \ written :
                    ~Exists(prev.fs, f) => ~Exists(fs, f)

\* The target goes from cjs to ts: .js and .d.ts files of the run before
\* are not produced again.
C3_Witness ==
    /\ pc = "done"
    /\ prev.ok
    /\ prev.target = "cjs"
    /\ target = "ts"
    /\ \E f \in prev.written \ written : Exists(prev.fs, f) /\ f[2] = <<"index", "js">>
    /\ \E f \in prev.written \ written : Exists(prev.fs, f) /\ f[2] = <<"index", "d", "ts">>

\* C4: a run that failed before the deletion loop has removed no file; the
\* snapshot is taken once, before the first mutation of the directory; and
\* no write or mkdir follows a removal.
C4_AbortedRunNeverDeletes ==
    /\ (pc \in {"failed", "exited"} /\ err # "rm") =>
            /\ Removed = {}
            /\ DOMAIN fs0 \subseteq DOMAIN fs
    /\ snapshots <= 1
    /\ (oplog # <<>> => snapshots = 1)
    /\ \A i, j \in 1..Len(oplog) : (i < j /\ oplog[i].op = "rm") => oplog[j].op = "rm"

\* The write of config.json fails with vestigial files waiting to be removed.
C4_Witness ==
    /\ pc = "failed"
    /\ err = "config"
    /\ initialFiles \ written # {}
    /\ Rewritten # {}

\* C5: when the version query or one of the six catalog queries has failed,
\* generateQB goes to its finally block and rejects: no generator has been
\* invoked and the output directory is as it was when the run started.
C5_FailedQueryAbortsRun ==
    (err \in {"version", "query"} \/ failedQuery # 0) =>
        /\ pc \in {"finally", "failed"}
        /\ gensInvoked = 0
        /\ snapshots = 0
        /\ oplog = <<>>
        /\ fs = fs0
        /\ dirs = dirs0

\* The casts query fails on a directory that holds files.
C5_Witness ==
    /\ pc = "failed"
    /\ err = "query"
    /\ CatalogQueries[failedQuery] = "casts"
    /\ DOMAIN fs # {}

\* C6: when a selected syntax file holds the disallowed reference and
\* generateQB throws, this run has made, written and removed nothing under
\* the output directory.
C6_InvalidTargetFileBeforeAnyMutation ==
    err = "InvalidTargetFile" =>
        /\ oplog = <<>>
        /\ fs = fs0
        /\ dirs = dirs0

\* C7: cxn.close() is never called twice, and when generateQB has returned
\* or rejected with a client created it has been called once.
C7_ConnectionClosedOnce ==
    /\ closeCount <= 1
    /\ ~clientCreated => closeCount = 0
    /\ (clientCreated /\ pc \notin {"version", "queries", "generate", "index", "finally"})
            => closeCount = 1

\* A generator throws: the run rejects with the connection closed.
C7_Witness ==
    /\ pc = "failed"
    /\ err = "generator"
    /\ clientCreated
    /\ closeCount = 1

-----------------------------------------------------------------------------
(* Properties of the introspection *)

Settled(q) == qstate[q] \in {"done", "failed"}

\* No catalog query has settled before the six have been handed to the
\* client; at most 5 operations are in flight; every query handed over and
\* not in flight or settled waits in line.
IntrospectSafe ==
    /\ \A q \in 1..Len(CatalogQueries) : Settled(q) => issued = Len(CatalogQueries)
    /\ Cardinality(Running(qstate)) <= 5
    /\ \A q \in 1..issued : qstate[q] # "new"
    /\ \A q \in QueryIds : qstate[q] = "queued" <=> q \in Range(queue)

\* A query fails only by the answer to it: one that waits is not turned away.
NeverRefused ==
    \A q \in QueryIds : (qstate[q] \in {"new", "queued"}) => (qstate'[q] # "failed")

\* C8: the six catalog queries are handed to the client without one waiting
\* for the result of another, never more than 5 operations are in flight, a
\* query handed over while 5 are in flight waits in line and is not turned
\* away, and unless a query fails the six end up resolved.
C8_ConcurrentBoundedIntrospection ==
    /\ []IntrospectSafe
    /\ [][NeverRefused]_vars
    /\ <>((\E q \in QueryIds : qstate[q] = "failed")
            \/ (\A q \in 1..Len(CatalogQueries) : qstate[q] = "done"))

\* The sixth query waits in line behind five in flight.
C8_Witness ==
    /\ issued = Len(CatalogQueries)
    /\ Cardinality(Running(qstate)) = 5
    /\ qstate[Len(CatalogQueries)] = "queued"
    /\ queue = <<Len(CatalogQueries)>>

-----------------------------------------------------------------------------
(* Properties of the merged default export *)

\* Entry j of spreadModules has no module behind it, or one that is not empty.
NotSkipped(j) ==
    spreadModules[j].module = "none" \/ ~modules[spreadModules[j].module].empty

KeysAt(j) == ResolveKeys(modules, spreadModules[j])

PositionIn(seq, x) == CHOOSE j \in 1..Len(seq) : seq[j] = x

\* The first entry of spreadModules, among those not skipped, that has key k.
FirstWithKey(k) ==
    LET having == {j \in 1..Len(spreadModules) : NotSkipped(j) /\ k \in KeysAt(j)}
    IN  spreadModules[CHOOSE j \in having : \A j2 \in having : j <= j2].name

NonEmptyModules == {m \in DOMAIN modules : ~modules[m].empty}

\* Entries a before b of spreadModules, neither skipped, both with key k.
Collide(a, b, k) ==
    /\ a < b
    /\ NotSkipped(a)
    /\ NotSkipped(b)
    /\ k \in KeysAt(a) \cap KeysAt(b)

\* C9, as stated: when entries A before B of spreadModules, neither skipped,
\* both have key k, A is spread after B, the merged value's k is A's, and
\* B's description in the merged type omits k.
C9_EarlierNamespaceWins ==
    mpc = "merged" =>
        \A a, b \in 1..Len(spreadModules) : \A k \in KeysAt(a) \cap KeysAt(b) :
            Collide(a, b, k) =>
                /\ PositionIn(valueSpreads, spreadModules[a].name)
                        > PositionIn(valueSpreads, spreadModules[b].name)
                /\ ValueProvider(k) = <<"spread", spreadModules[a].name>>
                /\ k \in OmittedFrom(spreadModules[b].name)

\* C9, amended: when entries A before B of spreadModules, neither skipped,
\* both have key k, A is spread after B and B's description in the merged
\* type omits k; the merged value's k is the entry of the module named k when
\* that module is registered and not empty, and otherwise comes from the
\* first entry not skipped that has k (A, when no entry before A has k).
C9_FirstNamespaceWinsUnlessModuleName ==
    mpc = "merged" =>
        \A a, b \in 1..Len(spreadModules) : \A k \in KeysAt(a) \cap KeysAt(b) :
            Collide(a, b, k) =>
                /\ PositionIn(valueSpreads, spreadModules[a].name)
                        > PositionIn(valueSpreads, spreadModules[b].name)
                /\ ValueProvider(k) = IF k \in NonEmptyModules THEN <<"module", k>>
                                      ELSE <<"spread", FirstWithKey(k)>>
                /\ k \in OmittedFrom(spreadModules[b].name)

\* Modules default and std both export User, op and math, and module math
\* is not empty: User comes from _default, op from $op, math from the module.
C9_Witness ==
    /\ mpc = "merged"
    /\ Collide(3, 4, "User") /\ Collide(3, 4, "op") /\ Collide(3, 4, "math")
    /\ "math" \in NonEmptyModules
    /\ ValueProvider("User") = <<"spread", "_default">>
    /\ ValueProvider("op") = <<"spread", "$op">>
    /\ ValueProvider("math") = <<"module", "math">>

\* The keys claimed before entry j of spreadModules: the names of
\* dir._modules and the keys of the entries before j that are not skipped.
ClaimedBefore(j) ==
    DOMAIN modules \cup UNION {KeysAt(j2) : j2 \in {j3 \in 1..(j - 1) : NotSkipped(j3)}}

\* C10: an entry of spreadModules whose module is empty has no description in
\* the merged type and no spread in the merged value, and its keys are not
\* claimed: the claimed keys are the module names and the keys of the entries
\* not skipped, and what an entry's description omits is what the entries
\* not skipped before it (and the module names) claimed.
C10_EmptyModuleSkipped ==
    mpc = "merged" =>
        /\ \A j \in 1..Len(spreadModules) :
            IF NotSkipped(j)
            THEN OmittedFrom(spreadModules[j].name) = KeysAt(j) \cap ClaimedBefore(j)
            ELSE /\ \A n \in 1..Len(spreadTypes) : spreadTypes[n].name # spreadModules[j].name
                 /\ spreadModules[j].name \notin Range(valueSpreads)
        /\ excludedKeys = ClaimedBefore(Len(spreadModules) + 1)

\* Module default is empty and shares the key User with module std, which
\* is not: the description of _std omits nothing.
C10_Witness ==
    /\ mpc = "merged"
    /\ modules["default"].empty
    /\ ~modules["std"].empty
    /\ "User" \in modules["default"].keys \cap modules["std"].keys
    /\ modules["std"].keys = {"User"}
    /\ OmittedFrom("_std") = {}
    /\ valueSpreads = <<"_std", "$syntax", "$op">>

-----------------------------------------------------------------------------
(* Properties of the lookup index *)

\* C11: once the loop over types.values() has ended, a type has an entry in
\* typesByName if and only if its name holds "::"; the placeholders anytype
\* and anytuple have none.
C11_OnlyQualifiedNamesIndexed ==
    tpc = "indexed" =>
        \A i \in 1..Len(types) :
            (types[i] \in DOMAIN typesByName) <=> IncludesColons(types[i])

-----------------------------------------------------------------------------
(* Properties of the write phase *)

\* The positions of the writes of config.json among the run's mutations.
ConfigWrites == {i \in 1..Len(oplog) : oplog[i] = LogOp("write", configPath)}

\* C12: a run removes nothing before it has written config.json; once it has
\* written it (and when it has returned), config.json was written once, after
\* every other write and mkdir of the run and before every removal, its path
\* is in `written` and was not removed; when the run has returned the file
\* holds the header line and the line of the run's target.
C12_ConfigWrittenLast ==
    /\ Removed # {} => ConfigWrites # {}
    /\ pc \in {"delete", "done"} =>
            /\ Cardinality(ConfigWrites) = 1
            /\ \A c \in ConfigWrites : \A i \in 1..Len(oplog) :
                    /\ (oplog[i].op \in {"write", "mkdir"} /\ i # c) => i < c
                    /\ oplog[i].op = "rm" => i > c
            /\ configPath \in written
            /\ configPath \notin Removed
    /\ pc = "done" =>
            /\ Exists(fs, configPath)
            /\ fs[configPath] = ConfigContents(target)
            /\ fs[configPath] =
                   << Tok("header", configFileHeader, <<>>), Tok("json", "target", <<target>>) >>

\* A run with another target than the run before it: it finds config.json,
\* writes files, writes config.json and removes files of the other target.
C12_Witness ==
    /\ pc = "done"
    /\ prev.ok
    /\ prev.target # target
    /\ configPath \in initialFiles
    /\ Cardinality(Rewritten) > 1
    /\ Removed # {}

-----------------------------------------------------------------------------
(* Properties of generateQB next to another process *)

\* A step of the deletion loop leaves every file that is not in the snapshot
\* as it is: there before and after, with the same content.
DeletionFrame ==
    (pc = "delete" /\ foreign' = foreign) =>
        \A p \in ((DOMAIN fs) \cup (DOMAIN fs')) \ initialFiles :
            /\ Exists(fs, p)
            /\ Exists(fs', p)
            /\ fs'[p] = fs[p]

\* C13: a run removes only paths of its snapshot initialFiles, and its
\* deletion loop neither removes nor changes a file that is not in the
\* snapshot: one that another process created under the output directory
\* after the snapshot, or one outside the output directory.
C13_DeletesOnlySnapshotFiles ==
    /\ [](Removed \subseteq initialFiles)
    /\ [][DeletionFrame]_vars

\* Another process created a file under the output directory after the
\* snapshot; the run removed files and returned, and that file is there.
C13_Witness ==
    /\ pc = "done"
    /\ Removed # {}
    /\ \E p \in Range(foreign) :
        /\ p # outsidePath
        /\ p \notin initialFiles
        /\ p \notin written
        /\ Exists(fs, p)

-----------------------------------------------------------------------------
(* Properties of the claimed keys *)

\* The first entry of spreadModules that is not skipped.
FirstNotSkipped ==
    CHOOSE j \in 1..Len(spreadModules) :
        NotSkipped(j) /\ \A j2 \in 1..(j - 1) : ~NotSkipped(j2)

\* Entry j is not skipped and has key k.
ExportsKey(j, k) == NotSkipped(j) /\ k \in KeysAt(j)

\* C14, as stated: the claimed keys are the empty set before the first entry
\* of spreadModules is processed, the description of the first entry not
\* skipped omits nothing, and a description omits a key only if an entry
\* before it that is not skipped has that key.
C14_ClaimedKeysSeededEmpty ==
    /\ (mpc = "spread" /\ mi = 1) => excludedKeys = {}
    /\ mpc = "merged" =>
        /\ OmittedFrom(spreadModules[FirstNotSkipped].name) = {}
        /\ \A j \in 1..Len(spreadModules) :
            \A k \in OmittedFrom(spreadModules[j].name) :
                \E j2 \in 1..(j - 1) : ExportsKey(j2, k)

\* C14, amended: the claimed keys are the names of the registered modules
\* (empty ones included) before the first entry is processed; the
\* description of the first entry not skipped omits those of its keys that
\* are module names; and a description omits a key of its entry if and only
\* if the key is a module name or an entry before it that is not skipped
\* has that key.
C14_ClaimedKeysSeededWithModuleNames ==
    /\ (mpc = "spread" /\ mi = 1) => excludedKeys = DOMAIN modules
    /\ mpc = "merged" =>
        /\ OmittedFrom(spreadModules[FirstNotSkipped].name)
                = KeysAt(FirstNotSkipped) \cap DOMAIN modules
        /\ \A j \in 1..Len(spreadModules) : \A k \in ExportKeys \cup syntaxKeys :
            ExportsKey(j, k) =>
                (k \in OmittedFrom(spreadModules[j].name)
                    <=> (k \in DOMAIN modules \/ \E j2 \in 1..(j - 1) : ExportsKey(j2, k)))

\* A module named op is registered and empty: the description of $op, the
\* first entry, omits op, which no entry before it has.
C14_Witness ==
    /\ mpc = "merged"
    /\ "op" \in DOMAIN modules
    /\ modules["op"].empty
    /\ FirstNotSkipped = 1
    /\ ExportsKey(1, "op")
    /\ OmittedFrom("$op") = {"op"}

-----------------------------------------------------------------------------
(* Properties of the merged type against the merged value *)

\* The names of the descriptions of the merged type, in the order joined.
TypeSpreads == [j \in 1..Len(spreadTypes) |-> spreadTypes[j].name]

\* The keys of the object ExportDefault.
ValueKeys ==
    Range(valueEntries)
        \cup UNION {ResolveKeys(modules, SpreadEntry(valueSpreads[j])) : j \in 1..Len(valueSpreads)}

\* What the merged type describes key k from: the module entry of that name,
\* and every description in the intersection that has k and does not omit it.
TypeDescribers(k) ==
    {<<"module", m>> : m \in {k} \cap Range(typeEntries)}
        \cup {<<"spread", spreadTypes[j].name>> : j \in
                {j2 \in 1..Len(spreadTypes) :
                    /\ k \in ResolveKeys(modules, SpreadEntry(spreadTypes[j2].name))
                    /\ k \notin spreadTypes[j2].omit}}

\* The entries of spreadModules that are not skipped, last one first.
NotSkippedReversed ==
    LET Test(entry) == entry.module = "none" \/ ~modules[entry.module].empty
        kept == SelectSeq(Reverse(spreadModules), Test)
    IN  [j \in 1..Len(kept) |-> kept[j].name]

\* The merged type and the merged value list the same entries in the same
\* order, the reverse of spreadModules.
SameSpreads ==
    /\ TypeSpreads = valueSpreads
    /\ valueSpreads = NotSkippedReversed

\* C15: the merged type and the merged value list the same entries of
\* spreadModules in the same order, the reverse of the declared one, and
\* every key of the merged value is described in the merged type by what
\* supplies its value and by nothing else: no key of the value is left
\* without a description.
C15_TypeValueConsistent ==
    mpc = "merged" =>
        /\ SameSpreads
        /\ \A k \in ValueKeys : TypeDescribers(k) = {ValueProvider(k)}

\* C16: when the merged surface is written, each registered module has an
\* entry in the merged type, an entry in the merged value and a default
\* import in the index file if its builder is not empty, and none of the
\* three if it is; the entries follow the order of dir._modules and no
\* module has two.
C16_ModuleEntriesIffNonEmpty ==
    mpc = "merged" =>
        /\ \A m \in DOMAIN modules :
            /\ (m \in Range(typeEntries)) <=> ~modules[m].empty
            /\ (m \in Range(valueEntries)) <=> ~modules[m].empty
            /\ (m \in imports) <=> ~modules[m].empty
        /\ imports \subseteq DOMAIN modules
        /\ typeEntries = valueEntries
        /\ LET Test(m) == ~modules[m].empty
           IN  valueEntries = SelectSeq(RegisteredModules(modules), Test)

\* Modules default and math are not empty and module std is.
C16_Witness ==
    /\ mpc = "merged"
    /\ DOMAIN modules = {"default", "std", "math"}
    /\ ~modules["default"].empty
    /\ modules["std"].empty
    /\ ~modules["math"].empty
    /\ typeEntries = <<"default", "math">>
    /\ imports = {"default", "math"}

-----------------------------------------------------------------------------
(* Properties of the support files and of the passes *)

\* The files of the syntax directory that the loop does not skip for target t.
SelectedSyntaxFiles(t) ==
    {syntaxFiles[i] : i \in {j \in 1..Len(syntaxFiles) : ~SkipSyntaxFile(t, syntaxFiles[j])}}

\* C17: when a run has returned, every syntax file selected for its target
\* is in the output syntax directory with the rewritten content, its path is
\* in `written` and was not removed, and it was written by this run if and
\* only if the file was missing or held another content when the run began.
C17_SupportFilesCopied ==
    pc = "done" =>
        \A fileName \in SelectedSyntaxFiles(target) :
            LET outputPath == SyntaxOutPath(fileName)
                contents == Rewrite(target, SyntaxSource(srcKind, fileName))
            IN  /\ Exists(fs, outputPath)
                /\ fs[outputPath] = contents
                /\ outputPath \in written
                /\ outputPath \notin Removed
                /\ (outputPath \in Rewritten)
                        <=> (~Exists(fs0, outputPath) \/ fs0[outputPath] # contents)

\* The modes and the file extensions of the passes of target t, in order.
PassModes(t) == [i \in 1..Len(TargetPasses(t)) |-> TargetPasses(t)[i].mode]
PassExtensions(t) == [i \in 1..Len(TargetPasses(t)) |-> TargetPasses(t)[i].fileExtension]

\* The files the passes of the current run emit: pass, builder and path.
Emitted ==
    {<<i, b, Dest(Graph(schema)[b], TargetPasses(target)[i])>> :
        i \in 1..Len(TargetPasses(target)), b \in 1..Len(Graph(schema))}

EmittedNotEmpty ==
    {e \in Emitted : ~IsEmpty(Graph(schema)[e[2]], TargetPasses(target)[e[1]])}

\* C18: targets cjs and esm make two passes, mode js then mode dts, with file
\* extensions .js/.d.ts and .mjs/.d.ts; targets ts, mts and deno make one
\* pass in mode ts. No path is written twice in a run, and when the run has
\* returned every file a pass emitted is in `written`, was not removed, and
\* holds what that pass rendered.
C18_TargetPassesKeepEachOther ==
    /\ PassModes("cjs") = <<"js", "dts">> /\ PassExtensions("cjs") = << <<"js">>, <<"d", "ts">> >>
    /\ PassModes("esm") = <<"js", "dts">> /\ PassExtensions("esm") = << <<"mjs">>, <<"d", "ts">> >>
    /\ \A t \in {"ts", "mts", "deno"} : PassModes(t) = <<"ts">>
    /\ \A i, j \in 1..Len(oplog) :
            (i # j /\ oplog[i].op = "write") => oplog[i] # oplog[j]
    /\ pc = "done" =>
        \A e \in EmittedNotEmpty :
            /\ e[3] \in written
            /\ e[3] \notin Removed
            /\ Exists(fs, e[3])
            /\ fs[e[3]] = Render(Graph(schema)[e[2]], TargetPasses(target)[e[1]])

\* A run for target cjs after a run for target esm: the .d.ts files of the
\* run before are found and kept, index.js is written by the first pass and
\* kept by the second, and the .mjs files are removed.
C18_Witness ==
    /\ pc = "done"
    /\ target = "cjs"
    /\ prev.ok
    /\ prev.target = "esm"
    /\ <<"", <<"index", "d", "ts">>>> \in initialFiles \cap written
    /\ <<"", <<"index", "js">>>> \in Rewritten
    /\ <<"", <<"index", "mjs">>>> \in Removed
    /\ Exists(fs, <<"", <<"index", "js">>>>)
    /\ Exists(fs, <<"", <<"index", "d", "ts">>>>)

-----------------------------------------------------------------------------
(* Properties of retryingConnect *)

\* C19: with waitUntilAvailable = 0, connectWithTimeout is called once at
\* most and sleep never; when the call has settled it has been called once,
\* and when it rejected, retryingConnect rejects with its error, whatever
\* the error is.
C19_NoWaitMeansOneAttempt ==
    waitUntilAvailable = 0 =>
        /\ attempts <= 1
        /\ sleeps = 0
        /\ rpc # "sleep"
        /\ rpc \in {"catch", "thrown", "returned"} => attempts = 1
        /\ rpc = "thrown" => (thrown = lastError /\ thrown \in ConnectErrors)
        /\ lastError # "none" => rpc \in {"catch", "thrown"}

\* The one call rejects with a reconnectable error, which is thrown.
C19_Witness ==
    /\ rpc = "thrown"
    /\ waitUntilAvailable = 0
    /\ attempts = 1
    /\ sleeps = 0
    /\ thrown = "reconnectable"

\* After a first call, retryingConnect sleeps or calls again only with the
\* last call rejected by a reconnectable error that the catch block saw no
\* later than the deadline; an error that is thrown is the last call's.
RetryOnlyWhenAllowed ==
    /\ (attempts >= 1 /\ rpc \in {"sleep", "connect"}) =>
            /\ lastError = "reconnectable"
            /\ observedAt <= startedAt + waitUntilAvailable
            /\ observedAt <= maxTime
    /\ rpc = "thrown" => thrown = lastError
    /\ rpc = "returned" => (lastError = "none" /\ thrown = "none")

\* An error that is not reconnectable is thrown from the catch block at
\* once; and once retryingConnect has returned or thrown there is no call
\* and no sleep any more.
NoAttemptAfterwards ==
    /\ (rpc = "catch" /\ lastError # "reconnectable") =>
            /\ rpc' = "thrown"
            /\ thrown' = lastError
            /\ attempts' = attempts
            /\ sleeps' = sleeps
    /\ rpc \in {"thrown", "returned"} =>
            /\ rpc' = rpc
            /\ attempts' = attempts
            /\ sleeps' = sleeps

\* C20: another call of connectWithTimeout is made only after a call rejected
\* with a ClientConnectionError that has the tag SHOULD_RECONNECT, seen at a
\* time not later than the deadline; any other error is thrown at once with
\* no further call, and so is the connection of the first call that
\* succeeds returned.
C20_RetryOnlyReconnectableBeforeDeadline ==
    /\ []RetryOnlyWhenAllowed
    /\ [][NoAttemptAfterwards]_vars

\* Two calls rejected with a reconnectable error before the deadline, each
\* followed by a sleep, and the third call connected.
C20_Witness ==
    /\ rpc = "returned"
    /\ attempts = 3
    /\ sleeps = 2
    /\ observedAt > startedAt
    /\ observedAt <= startedAt + waitUntilAvailable

\* retryingConnect has returned a connection or thrown.
RetrySettled == rpc \in {"returned", "thrown"}

\* retryingConnect settles only after a call of connectWithTimeout; and when
\* the catch block has seen a reconnectable error later than the deadline,
\* that error is thrown.
ThrownPastDeadline ==
    /\ RetrySettled => attempts >= 1
    /\ observedAt > startedAt + waitUntilAvailable =>
            /\ rpc = "thrown"
            /\ thrown = "reconnectable"
            /\ lastError = "reconnectable"

\* C21: with every call of connectWithTimeout settling and the clock going
\* on over every sleep, retryingConnect ends up returning a connection or
\* throwing; it has then made one call at least; a reconnectable error seen
\* later than the deadline is thrown; and after it has returned or thrown
\* there is no call any more.
C21_RetryTerminates ==
    /\ <>RetrySettled
    /\ []ThrownPastDeadline
    /\ [][RetrySettled => (attempts' = attempts /\ rpc' = rpc)]_vars

\* Calls rejected with reconnectable errors until one is seen after the
\* deadline: three calls and two sleeps, and the last error is thrown.
C21_Witness ==
    /\ rpc = "thrown"
    /\ thrown = "reconnectable"
    /\ waitUntilAvailable > 0
    /\ observedAt > startedAt + waitUntilAvailable
    /\ attempts = 3
    /\ sleeps = 2

-----------------------------------------------------------------------------
(* Properties of update() *)

\* A call that found the set not empty has not cleared it: once past its
\* test of cleanScopedExprs the set still holds what the call found and the
\* call's own scope.
NestedCallKeepsScopes ==
    \A i \in 1..Len(ustack) :
        (~ustack[i].clean /\ ustack[i].at = "validate" /\ i = Len(ustack)) =>
            (ustack[i].entry \cup {ustack[i].id}) \subseteq existingScopes

\* C22: when a call of update() that found $existingScopes empty has returned
\* or thrown (the shape callback or the validation of the shape having
\* thrown), $existingScopes is empty; and a call that found it not empty
\* does not clear it.
C22_ScopesEmptyAfterTopLevelUpdate ==
    /\ (ustack = <<>> /\ result \in {"returned", "thrown"} /\ entryEmpty) =>
            existingScopes = {}
    /\ NestedCallKeepsScopes

====
